---- MODULE Spec2Model ----
(***************************************************************************)
(* Model of src/Data_extraction.py: the time-shifted standings join        *)
(* (calculate_points_per_round) and the weather extraction cascade with    *)
(* its keyword classification (get_weather_info).                          *)
(*                                                                         *)
(* Python strings are sequences of one-character strings, so that          *)
(* concatenation, str(), lower() and split() are computed, not assumed.    *)
(* A pandas DataFrame is a record [cols, rows]: cols is the sequence of    *)
(* column names and each row a function from column name to cell.  A       *)
(* float cell produced by a join is a sequence: <<>> is NaN, <<v>> is v.   *)
(***************************************************************************)
EXTENDS Integers, Sequences, FiniteSets, TLC

VARIABLES
  jpc,        \* calculate_points_per_round: "start" | "returned"
  df,         \* the caller's DataFrame object (mutated in place by the call)
  df_before,  \* the caller's DataFrame as it was when the call started
  new_df,     \* the DataFrame the call returns
  cpc,        \* one classification of a raw text: "start" | "done"
  x,          \* the raw text classified
  onehot,     \* the five labels computed for x
  pc,         \* get_weather_info: position in the code; "returned", or the
              \* exception the call raised to its caller
  link,       \* index of the race url the loop is at (0 before the loop)
  i,          \* the table index of `for i in range(4)`
  page,       \* what the current race's page and browser do
  info,       \* the list `info`
  info_src,   \* for every entry of info, the index of the race that appended it
  driver,     \* browser sessions: sequence of [race, quit]
  s1raised,   \* the structured-table stage raised for the current race
  s2started,  \* webdriver.Chrome() was called for the current race
  weather,    \* the column weather['weather'] once assigned
  weather_df  \* the one-hot rows of weather_df once computed

jvars == <<jpc, df, df_before, new_df>>
cvars == <<cpc, x, onehot>>
wvars == <<pc, link, i, page, info, info_src, driver, s1raised, s2started,
           weather, weather_df>>
vars == <<jvars, cvars, wvars>>

\* ------------------------------------------------------------------ bounds
MaxRows == 3

\* --------------------------------------------------------- python strings
DigitChars == <<"0", "1", "2", "3", "4", "5", "6", "7", "8", "9">>

RECURSIVE Str(_)
\* str(n) / Series.astype(str) of an integer: its decimal digits
Str(n) ==
  IF n < 0 THEN <<"-">> \o Str(0 - n)
  ELSE IF n < 10 THEN <<DigitChars[n + 1]>>
  ELSE Str(n \div 10) \o <<DigitChars[(n % 10) + 1]>>

RECURSIVE Flatten(_)
\* concatenation of a sequence of sequences
Flatten(ss) ==
  IF ss = <<>> THEN <<>> ELSE Head(ss) \o Flatten(Tail(ss))

\* ------------------------------------------------------ standings tables
\* The columns of the call of src/extract_data.py:22
TeamCol == "driver"
PointsCol == "driver_points"
AfterRaceCol == "driver_points_after_race"

Seasons == {2, 22}
Entities == {<<"a">>, <<"a", "1">>, <<"2", "a">>}
Rounds == {1, 2, 11, 12}
Points == {5, 7}

StandingsRecords ==
  { (("season" :> s) @@ ("round" :> r) @@ (TeamCol :> e) @@ (PointsCol :> p)) :
      s \in Seasons, r \in Rounds, e \in Entities, p \in Points }

SameTriple(a, b) ==
  /\ a["season"] = b["season"]
  /\ a[TeamCol] = b[TeamCol]
  /\ a["round"] = b["round"]

\* Tables as extract_driver_standings builds them: one row per
\* (season, round, driver), in any order.
StandingsTables ==
  UNION { { t \in [1..n -> StandingsRecords] :
              \A a, b \in 1..n : a # b => ~SameTriple(t[a], t[b]) } :
          n \in 0..MaxRows }

\* df[name] = values : adds (or overwrites) a column in place
SetColumn(d, name, values) ==
  [cols |-> IF \E c \in 1..Len(d.cols) : d.cols[c] = name
            THEN d.cols ELSE Append(d.cols, name),
   rows |-> [n \in 1..Len(d.rows) |-> (name :> values[n]) @@ d.rows[n]]]

\* df.season.astype(str) + df[team] + df['round'].astype(str)
Lookup1(row, team) == Str(row["season"]) \o row[team] \o Str(row["round"])

\* df.season.astype(str) + df[team] + (df['round']-1).astype(str)
Lookup2(row, team) == Str(row["season"]) \o row[team] \o Str(row["round"] - 1)

\* df[['lookup1', points]]
RightFrame(d, points) ==
  [n \in 1..Len(d.rows) |->
     ("lookup1" :> d.rows[n]["lookup1"]) @@ (points :> d.rows[n][points])]

\* One row of the merge result: the left row with lookup1 and points
\* suffixed _x, the right row's lookup1 and points suffixed _y.
\* r = <<>> stands for "no right row matched" (NaN cells).
MergedRow(l, r, team, points) ==
  ("season" :> l["season"]) @@ ("round" :> l["round"]) @@ (team :> l[team]) @@
  ("points_x" :> l[points]) @@ ("lookup1_x" :> l["lookup1"]) @@
  ("lookup2" :> l["lookup2"]) @@
  ("lookup1_y" :> IF r = <<>> THEN <<>> ELSE <<r[1]["lookup1"]>>) @@
  ("points_y" :> IF r = <<>> THEN <<>> ELSE <<r[1][points]>>)

\* df.merge(right, how='left', left_on='lookup2', right_on='lookup1'):
\* every left row, in order, once per right row whose lookup1 equals its
\* lookup2 (in right order), or once with NaN when there is none.
Merge(d, right, team, points) ==
  Flatten([n \in 1..Len(d.rows) |->
    LET l == d.rows[n]
        m == SelectSeq(right, LAMBDA r : r["lookup1"] = l["lookup2"])
    IN IF m = <<>>
       THEN <<MergedRow(l, <<>>, team, points)>>
       ELSE [j \in 1..Len(m) |-> MergedRow(l, <<m[j]>>, team, points)]])

\* drop(['lookup1_x','lookup2','lookup1_y']), rename points_x ->
\* points+'_after_race' and points_y -> points
DropRename(m, team, points, after) ==
  ("season" :> m["season"]) @@ ("round" :> m["round"]) @@ (team :> m[team]) @@
  (after :> m["points_x"]) @@ (points :> m["points_y"])

\* new_df[points].fillna(0, inplace = True)
FillNa(row, points) ==
  [row EXCEPT ![points] = IF @ = <<>> THEN 0 ELSE @[1]]

\* The DataFrame object of the caller after lines 23 and 25
WithKeys(d, team) ==
  LET d1 == SetColumn(d, "lookup1",
                      [n \in 1..Len(d.rows) |-> Lookup1(d.rows[n], team)])
  IN SetColumn(d1, "lookup2",
               [n \in 1..Len(d1.rows) |-> Lookup2(d1.rows[n], team)])

\* The returned DataFrame, given the caller's DataFrame after lines 23, 25
Joined(d, team, points, after) ==
  LET merged == Merge(d, RightFrame(d, points), team, points)
  IN [cols |-> <<"season", "round", team, after, points>>,
      rows |-> [n \in 1..Len(merged) |->
                  FillNa(DropRename(merged[n], team, points, after), points)]]

JoinStart ==
  /\ jpc = "start"
  /\ \E t \in StandingsTables :
       df = [cols |-> <<"season", "round", TeamCol, PointsCol>>, rows |-> t]
  /\ df_before = df
  /\ new_df = [cols |-> <<>>, rows |-> <<>>]

JoinIdle ==
  /\ jpc = "idle"
  /\ df = [cols |-> <<>>, rows |-> <<>>]
  /\ df_before = df
  /\ new_df = df

\* calculate_points_per_round(df, 'driver', 'driver_points')
calculate_points_per_round ==
  /\ jpc = "start"
  /\ df_before' = df
  /\ df' = WithKeys(df, TeamCol)
  /\ new_df' = Joined(df', TeamCol, PointsCol, AfterRaceCol)
  /\ jpc' = "returned"
  /\ UNCHANGED <<cvars, wvars>>

\* ------------------------------------------------- weather classification
\* weather_dict (keyword lists; a list is used only for membership)
weather_dict ==
  [weather_warm |->
    {<<"s","o","l","e","g","g","i","a","t","o">>,
     <<"c","l","e","a","r">>,
     <<"w","a","r","m">>,
     <<"h","o","t">>,
     <<"s","u","n","n","y">>,
     <<"f","i","n","e">>,
     <<"m","i","l","d">>,
     <<"s","e","r","e","n","o">>},
   weather_cold |->
    {<<"c","o","l","d">>,
     <<"f","r","e","s","h">>,
     <<"c","h","i","l","l","y">>,
     <<"c","o","o","l">>},
   weather_dry |->
    {<<"d","r","y">>,
     <<"a","s","c","i","u","t","t","o">>},
   weather_wet |->
    {<<"s","h","o","w","e","r","s">>,
     <<"w","e","t">>,
     <<"r","a","i","n">>,
     <<"p","i","o","g","g","i","a">>,
     <<"d","a","m","p">>,
     <<"t","h","u","n","d","e","r","s","t","o","r","m","s">>,
     <<"r","a","i","n","y">>},
   weather_cloudy |->
    {<<"o","v","e","r","c","a","s","t">>,
     <<"n","u","v","o","l","o","s","o">>,
     <<"c","l","o","u","d","s">>,
     <<"c","l","o","u","d","y">>,
     <<"g","r","e","y">>,
     <<"c","o","p","e","r","t","o">>}]

\* weather_df = pd.DataFrame(columns = weather_dict.keys())
WeatherCols == DOMAIN weather_dict

UpperChars == <<"A","B","C","D","E","F","G","H","I","J","K","L","M",
                "N","O","P","Q","R","S","T","U","V","W","X","Y","Z">>
LowerChars == <<"a","b","c","d","e","f","g","h","i","j","k","l","m",
                "n","o","p","q","r","s","t","u","v","w","x","y","z">>

LowerChar(c) ==
  IF \E n \in 1..Len(UpperChars) : UpperChars[n] = c
  THEN LowerChars[CHOOSE n \in 1..Len(UpperChars) : UpperChars[n] = c]
  ELSE c

\* str.lower()
Lower(s) == [n \in 1..Len(s) |-> LowerChar(s[n])]

\* the characters str.split() with no argument splits at
IsSpace(c) == c \in {" ", "\t", "\n"}

RECURSIVE SplitFrom(_, _, _)
\* scan s; cur is the token being read, acc the tokens read so far
SplitFrom(s, cur, acc) ==
  IF s = <<>> THEN (IF cur = <<>> THEN acc ELSE Append(acc, cur))
  ELSE IF IsSpace(Head(s))
       THEN SplitFrom(Tail(s), <<>>, IF cur = <<>> THEN acc ELSE Append(acc, cur))
       ELSE SplitFrom(Tail(s), Append(cur, Head(s)), acc)

\* str.split(): the maximal runs of non-whitespace characters, in order
Split(s) == SplitFrom(s, <<>>, <<>>)

\* s contains kw as a substring (python: kw in s)
Contains(s, kw) ==
  \E a \in 1..(Len(s) - Len(kw) + 1) : SubSeq(s, a, a + Len(kw) - 1) = kw

\* a classifier that matches keywords anywhere in the text
LabelSubstring(col, text) ==
  IF \E kw \in weather_dict[col] : Contains(Lower(text), kw) THEN 1 ELSE 0

\* lambda x: 1 if any(i in weather_dict[col] for i in x.lower().split()) else 0
Label(col, text) ==
  LET toks == Split(Lower(text))
  IN IF \E n \in 1..Len(toks) : toks[n] \in weather_dict[col] THEN 1 ELSE 0

\* the five labels of one text
OneHot(text) == [col \in WeatherCols |-> Label(col, text)]

\* ---- classification of one text, over texts assembled from pieces
MaxPieces == 4

Pieces ==
  {<<"S","u","n","n","y"," ">>,
   <<"a","n","d"," ">>,
   <<"d","r","y">>,
   <<"C","O","L","D"," ">>,
   <<"w","e","t","\t">>,
   <<"g","r","e","y"," ">>,
   <<"r","a","i","n",",">>,
   <<" ">>}

RawTexts ==
  UNION { { Flatten(ps) : ps \in [1..n -> Pieces] } : n \in 0..MaxPieces }

NoLabels == [col \in WeatherCols |-> 0]

ClassifyStart ==
  /\ cpc = "start"
  /\ x \in RawTexts
  /\ onehot = NoLabels

ClassifyIdle ==
  /\ cpc = "idle"
  /\ x = <<>>
  /\ onehot = NoLabels

\* weather['weather'].map(lambda x: ...) applied to one value, every column
Classify ==
  /\ cpc = "start"
  /\ onehot' = OneHot(x)
  /\ cpc' = "done"
  /\ UNCHANGED <<x, jvars, wvars>>

\* ------------------------------------------------- get_weather_info
NumRaces == 2
MaxWeatherTables == 2

\* for i in range(4)
TablesScanned == 4

\* pages have up to one table more than the scan reads
MaxTables == TablesScanned + 1

SunnyAndDry == <<"S","u","n","n","y"," ","a","n","d"," ","d","r","y">>
Overcast == <<"O","v","e","r","c","a","s","t">>
Pioggia == <<"P","i","o","g","g","i","a">>
NotFound == <<"n","o","t"," ","f","o","u","n","d">>

\* A value appended to info: a python str, or the float NaN that
\* pd.read_html puts in an empty cell.
StrVal(t) == [kind |-> "str", text |-> t]
NaNVal == [kind |-> "nan", text |-> <<>>]

\* A table of the page, as far as the scan reads it: its number of columns
\* and, in row order, the second-column cells of the rows whose first
\* column is 'Weather'.
NoWeatherTable == [ncols |-> 2, cells |-> <<>>]
WeatherTables ==
  {[ncols |-> 2, cells |-> <<StrVal(SunnyAndDry)>>],
   [ncols |-> 2, cells |-> <<StrVal(Overcast), StrVal(SunnyAndDry)>>],
   [ncols |-> 2, cells |-> <<NaNVal>>],
   [ncols |-> 1, cells |-> <<NaNVal>>]}
TableKinds == {NoWeatherTable} \cup WeatherTables

\* What the browser does for a race: the call that raises ("none": no call
\* raises) and the text of the cell the XPath selects.
BrowserCalls == {"Chrome", "get", "find_link", "click", "find_xpath", "quit"}
DefaultBrowser == [fail |-> "none", text |-> Pioggia]
Browsers ==
  {[fail |-> f, text |-> Pioggia] : f \in BrowserCalls \cup {"none"}}
    \cup {[fail |-> f, text |-> <<>>] : f \in {"none", "quit"}}

HasWeather(t) == t.cells # <<>>

\* the scan of the first four tables reaches the for-else clause
ReachesElse(tables) ==
  /\ Len(tables) >= TablesScanned
  /\ \A n \in 1..TablesScanned : ~HasWeather(tables[n])

\* the table lists of a page: up to MaxTables tables, of which up to
\* MaxWeatherTables have a 'Weather' row
TableLists ==
  UNION { { ts \in [1..n -> TableKinds] :
              Cardinality({k \in 1..n : HasWeather(ts[k])}) <= MaxWeatherTables } :
          n \in 0..MaxTables }

\* The pages a race url can lead to.  parse_ok = FALSE: pd.read_html raises
\* whatever the index.  The browser's behaviour varies only over the pages
\* on which the code opens a browser.
Pages ==
  {[parse_ok |-> FALSE, tables |-> <<>>, browser |-> DefaultBrowser]}
    \cup {[parse_ok |-> TRUE, tables |-> ts, browser |-> DefaultBrowser] :
            ts \in {t \in TableLists : ~ReachesElse(t)}}
    \cup {[parse_ok |-> TRUE, tables |-> ts, browser |-> b] :
            ts \in {t \in TableLists : ReachesElse(t)}, b \in Browsers}

NoPage == [parse_ok |-> FALSE, tables |-> <<>>, browser |-> DefaultBrowser]

WeatherInit ==
  /\ pc = "loop"
  /\ link = 0
  /\ i = 0
  /\ page = NoPage
  /\ info = <<>>
  /\ info_src = <<>>
  /\ driver = <<>>
  /\ s1raised = FALSE
  /\ s2started = FALSE
  /\ weather = <<>>
  /\ weather_df = <<>>

WeatherIdle ==
  /\ pc = "idle"
  /\ link = 0
  /\ i = 0
  /\ page = NoPage
  /\ info = <<>>
  /\ info_src = <<>>
  /\ driver = <<>>
  /\ s1raised = FALSE
  /\ s2started = FALSE
  /\ weather = <<>>
  /\ weather_df = <<>>

\* info.append(v), by the race the loop is at
InfoAppend(v) ==
  /\ info' = Append(info, v)
  /\ info_src' = Append(info_src, link)

\* The iteration for the current url is over: back to the loop head.  The
\* page, i and the two flags are not read again before NextLink sets them.
EndOfIteration ==
  /\ pc' = "loop"
  /\ page' = NoPage
  /\ i' = 0
  /\ s1raised' = FALSE
  /\ s2started' = FALSE

\* for link in df['url']: the next url
NextLink ==
  /\ pc = "loop"
  /\ link < NumRaces
  /\ link' = link + 1
  /\ page' \in Pages
  /\ i' = 0
  /\ s1raised' = FALSE
  /\ s2started' = FALSE
  /\ pc' = "read_html"
  /\ UNCHANGED <<info, info_src, driver, weather, weather_df, jvars, cvars>>

\* for link in df['url']: no url is left
LoopEnd ==
  /\ pc = "loop"
  /\ link = NumRaces
  /\ pc' = "assign"
  /\ UNCHANGED <<link, i, page, info, info_src, driver, s1raised, s2started,
                 weather, weather_df, jvars, cvars>>

\* df_table = pd.read_html(link)[i] raises: the page cannot be parsed, has
\* no table at all (ValueError) or has no table i (IndexError)
ReadHtmlRaises ==
  /\ pc = "read_html"
  /\ ~page.parse_ok \/ i >= Len(page.tables)
  /\ s1raised' = TRUE
  /\ pc' = "except"
  /\ UNCHANGED <<link, i, page, info, info_src, driver, s2started,
                 weather, weather_df, jvars, cvars>>

\* table i has a 'Weather' row: info.append(df_table.iloc[n, 1]); break
\* (n the first such row; IndexError when the table has a single column)
WeatherRowFound ==
  /\ pc = "read_html"
  /\ page.parse_ok /\ i < Len(page.tables)
  /\ HasWeather(page.tables[i + 1])
  /\ IF page.tables[i + 1].ncols < 2
     THEN /\ s1raised' = TRUE
          /\ pc' = "except"
          /\ UNCHANGED <<i, page, s2started, info, info_src>>
     ELSE /\ InfoAppend(page.tables[i + 1].cells[1])
          /\ EndOfIteration
  /\ UNCHANGED <<link, driver, weather, weather_df, jvars, cvars>>

\* a scan that gives up after the first table without a 'Weather' row
WeatherRowAbsentOnce ==
  /\ pc = "read_html"
  /\ page.parse_ok /\ i < Len(page.tables)
  /\ ~HasWeather(page.tables[i + 1])
  /\ i' = i /\ pc' = "chrome"
  /\ UNCHANGED <<link, page, info, info_src, driver, s1raised, s2started,
                 weather, weather_df, jvars, cvars>>

\* table i has no 'Weather' row: next i, or the else clause after i = 3
WeatherRowAbsent ==
  /\ pc = "read_html"
  /\ page.parse_ok /\ i < Len(page.tables)
  /\ ~HasWeather(page.tables[i + 1])
  /\ IF i + 1 < TablesScanned
     THEN i' = i + 1 /\ pc' = "read_html"
     ELSE i' = i /\ pc' = "chrome"
  /\ UNCHANGED <<link, page, info, info_src, driver, s1raised, s2started,
                 weather, weather_df, jvars, cvars>>

\* driver = webdriver.Chrome()
Chrome ==
  /\ pc = "chrome"
  /\ s2started' = TRUE
  /\ IF page.browser.fail = "Chrome"
     THEN pc' = "except" /\ UNCHANGED driver
     ELSE pc' = "get" /\ driver' = Append(driver, [race |-> link, quit |-> FALSE])
  /\ UNCHANGED <<link, i, page, info, info_src, s1raised, weather, weather_df,
                 jvars, cvars>>

\* driver.get(link)
Get ==
  /\ pc = "get"
  /\ pc' = IF page.browser.fail = "get" THEN "except" ELSE "find_link"
  /\ UNCHANGED <<link, i, page, info, info_src, driver, s1raised, s2started,
                 weather, weather_df, jvars, cvars>>

\* button = driver.find_element_by_link_text('Italiano')
FindLink ==
  /\ pc = "find_link"
  /\ pc' = IF page.browser.fail = "find_link" THEN "except" ELSE "click"
  /\ UNCHANGED <<link, i, page, info, info_src, driver, s1raised, s2started,
                 weather, weather_df, jvars, cvars>>

\* button.click()
Click ==
  /\ pc = "click"
  /\ pc' = IF page.browser.fail = "click" THEN "except" ELSE "find_xpath"
  /\ UNCHANGED <<link, i, page, info, info_src, driver, s1raised, s2started,
                 weather, weather_df, jvars, cvars>>

\* clima = driver.find_element_by_xpath(...).text; info.append(clima)
FindXpath ==
  /\ pc = "find_xpath"
  /\ IF page.browser.fail = "find_xpath"
     THEN pc' = "except" /\ UNCHANGED <<info, info_src>>
     ELSE pc' = "quit" /\ InfoAppend(StrVal(page.browser.text))
  /\ UNCHANGED <<link, i, page, driver, s1raised, s2started, weather,
                 weather_df, jvars, cvars>>

\* driver.quit()
Quit ==
  /\ pc = "quit"
  /\ IF page.browser.fail = "quit"
     THEN /\ pc' = "except"
          /\ UNCHANGED <<driver, i, page, s1raised, s2started>>
     ELSE /\ driver' = [driver EXCEPT ![Len(driver)].quit = TRUE]
          /\ EndOfIteration
  /\ UNCHANGED <<link, info, info_src, weather, weather_df, jvars, cvars>>

\* except Exception as e: info.append('not found')
Except ==
  /\ pc = "except"
  /\ InfoAppend(StrVal(NotFound))
  /\ EndOfIteration
  /\ UNCHANGED <<link, driver, weather, weather_df, jvars, cvars>>

\* weather['weather'] = info : ValueError unless info has one entry per row
AssignWeather ==
  /\ pc = "assign"
  /\ IF Len(info) = NumRaces
     THEN weather' = info /\ pc' = "map"
     ELSE weather' = weather /\ pc' = "ValueError"
  /\ UNCHANGED <<link, i, page, info, info_src, driver, s1raised, s2started,
                 weather_df, jvars, cvars>>

\* for col in weather_df: weather_df[col] = weather['weather'].map(...);
\* x.lower() raises AttributeError for a value that is not a str.
\* Then pd.concat and return.
MapWeather ==
  /\ pc = "map"
  /\ IF \A n \in 1..Len(weather) : weather[n].kind = "str"
     THEN /\ weather_df' = [n \in 1..Len(weather) |-> OneHot(weather[n].text)]
          /\ pc' = "returned"
     ELSE /\ weather_df' = weather_df
          /\ pc' = "AttributeError"
  /\ UNCHANGED <<link, i, page, info, info_src, driver, s1raised, s2started,
                 weather, jvars, cvars>>

\* ---------------------------------------------------------- specifications
\* one call of calculate_points_per_round on a standings table
JoinInit == JoinStart /\ ClassifyIdle /\ WeatherIdle
JoinNext == calculate_points_per_round
JoinSpec == JoinInit /\ [][JoinNext]_vars

\* the classification of one raw text
ClassifyInit == JoinIdle /\ ClassifyStart /\ WeatherIdle
ClassifyNext == Classify
ClassifySpec == ClassifyInit /\ [][ClassifyNext]_vars

\* get_weather_info over a batch of NumRaces race urls
Init == JoinIdle /\ ClassifyIdle /\ WeatherInit
Next ==
  \/ NextLink \/ LoopEnd
  \/ ReadHtmlRaises \/ WeatherRowFound \/ WeatherRowAbsent
  \/ Chrome \/ Get \/ FindLink \/ Click \/ FindXpath \/ Quit
  \/ Except
  \/ AssignWeather \/ MapWeather
Spec == Init /\ [][Next]_vars

\* ------------------------------------------------------------- claims
\* rows of a DataFrame, as a set of indices
RowsOf(d) == 1..Len(d.rows)

\* C1: calculate_points_per_round returns exactly one output row per input
\* row: len(output) == len(input) for any input table.
C1_RowCountPreserved ==
  jpc = "returned" => Len(new_df.rows) = Len(df_before.rows)

\* C2: for every entity with records at rounds r and r+1 of one season,
\* the output row for round r+1 carries the round-r record's metric value
\* as the looked-up value (column <metric>) and its own input value as
\* <metric>_after_race.
C2_PreviousRoundValue ==
  jpc = "returned" =>
    \A o \in RowsOf(new_df) : \A p, q \in RowsOf(df_before) :
      LET out == new_df.rows[o]
          prev == df_before.rows[p]
          own == df_before.rows[q]
      IN (/\ SameTriple(own, out)
          /\ prev["season"] = out["season"]
          /\ prev[TeamCol] = out[TeamCol]
          /\ prev["round"] + 1 = out["round"])
         => /\ out[PointsCol] = prev[PointsCol]
            /\ out[AfterRaceCol] = own[PointsCol]

\* C3: for every record with no record of the same season and entity at
\* round r-1, the looked-up previous-round value of its output row is 0.
C3_NoPreviousRoundIsZero ==
  jpc = "returned" =>
    \A o \in RowsOf(new_df) :
      LET out == new_df.rows[o]
      IN (~\E p \in RowsOf(df_before) :
             /\ df_before.rows[p]["season"] = out["season"]
             /\ df_before.rows[p][TeamCol] = out[TeamCol]
             /\ df_before.rows[p]["round"] = out["round"] - 1)
         => out[PointsCol] = 0

\* C4: the keys lookup1 (season, entity, round) and lookup2 (season,
\* entity, round-1) compare equal if and only if season, entity and round
\* (or round-1) are all equal.
C4_KeysEqualIffTriplesEqual ==
  jpc = "returned" =>
    \A a, b \in RowsOf(df) :
      LET ra == df.rows[a]
          rb == df.rows[b]
      IN /\ (ra["lookup1"] = rb["lookup1"]) <=> SameTriple(ra, rb)
         /\ (ra["lookup2"] = rb["lookup1"]) <=>
              (/\ ra["season"] = rb["season"]
               /\ ra[TeamCol] = rb[TeamCol]
               /\ ra["round"] - 1 = rb["round"])

\* C10: calculate_points_per_round has no side effect on the caller's
\* table: after the call df has the columns and values it had before.
C10_InputUnchanged ==
  jpc = "returned" => df = df_before

\* C5: when the structured-table stage raises for a race, the
\* rendered-page stage is still attempted for that race before the
\* sentinel 'not found' is recorded (pc = "except": the sentinel is about
\* to be appended for the current race).
C5_RaiseAdvancesToBrowser ==
  (pc = "except" /\ s1raised) => s2started

\* the first TablesScanned tables of page p have no 'Weather' row
NoWeatherRowInScan(p) ==
  \A n \in 1..Len(p.tables) : n <= TablesScanned => ~HasWeather(p.tables[n])

\* C6: at the end of the iteration for a page on which stage 1 yields no
\* 'Weather' row (whatever its number of tables), the raw text recorded is
\* the text T stage 2 returns, and 'not found' when stage 2 fails as well.
C6_CascadeResult ==
  [][(/\ pc # "loop" /\ pc' = "loop"
      /\ page.parse_ok
      /\ NoWeatherRowInScan(page))
     => /\ page.browser.fail = "none"
             => info'[Len(info')] = StrVal(page.browser.text)
        /\ page.browser.fail \in BrowserCalls \ {"quit"}
             => info'[Len(info')] = StrVal(NotFound)]_vars

\* get_weather_info raised to its caller
Raised == pc \in {"ValueError", "AttributeError"}

\* C7: get_weather_info never raises to its caller because of what happens
\* while extracting one race: it returns a table with a row for every race,
\* and the row of every race holds that race's own observation.
C7_NeverRaises ==
  /\ ~Raised
  /\ pc = "returned" =>
       /\ Len(weather) = NumRaces
       /\ Len(weather_df) = NumRaces
       /\ \A n \in 1..Len(info_src) : info_src[n] = n

\* x[a..b] is a whitespace-delimited token of s
IsToken(s, a, b) ==
  /\ 1 <= a /\ a <= b /\ b <= Len(s)
  /\ \A k \in a..b : ~IsSpace(s[k])
  /\ a = 1 \/ IsSpace(s[a - 1])
  /\ b = Len(s) \/ IsSpace(s[b + 1])

\* s[a..b], lower-cased, is the keyword kw
IsKeyword(s, a, b, kw) ==
  /\ Len(kw) = b - a + 1
  /\ \A k \in 1..Len(kw) : LowerChar(s[a + k - 1]) = kw[k]

\* C8: for every raw text and every category, the label is 1 if and only
\* if at least one whitespace-delimited token of the lower-cased text is
\* exactly a keyword of that category, and 0 otherwise; each category is
\* decided by its own keywords alone.
C8_LabelIffTokenIsKeyword ==
  cpc = "done" =>
    \A col \in WeatherCols :
      /\ onehot[col] \in {0, 1}
      /\ onehot[col] = 1 <=>
           \E a, b \in 1..Len(x) :
             /\ IsToken(x, a, b)
             /\ \E kw \in weather_dict[col] : IsKeyword(x, a, b, kw)

\* 'Sunny and dry' classified: warm and dry, nothing else
C8_Witness ==
  /\ cpc = "done"
  /\ x = SunnyAndDry
  /\ onehot = [weather_warm |-> 1, weather_cold |-> 0, weather_dry |-> 1,
               weather_wet |-> 0, weather_cloudy |-> 0]

\* C9: classification never raises: for every raw value the extractor can
\* record the classification step completes, and 'not found' and empty
\* text yield all five labels false.
C9_ClassificationNeverRaises ==
  /\ pc # "AttributeError"
  /\ pc = "returned" =>
       \A n \in 1..Len(weather) :
         weather[n].text \in {NotFound, <<>>} => weather_df[n] = NoLabels

\* one of the first TablesScanned tables of page p has a 'Weather' row
WeatherRowInScan(p) == p.parse_ok /\ ~NoWeatherRowInScan(p)

\* the lowest-indexed table of page p with a 'Weather' row
LowestWeatherTable(p) ==
  p.tables[CHOOSE w \in 1..Len(p.tables) :
             /\ HasWeather(p.tables[w])
             /\ \A v \in 1..(w - 1) : ~HasWeather(p.tables[v])]

\* webdriver.Chrome() is called in this step
BrowserStarts == ~s2started /\ s2started'

\* the iteration for the current url ends in this step
IterationEnds == pc # "loop" /\ pc' = "loop"

\* no browser session was opened for the race the loop is at
NoBrowserForRace ==
  /\ ~s2started
  /\ \A n \in 1..Len(driver') : driver'[n].race # link

\* the browser stage starts only after the first four tables were all
\* scanned and none has a 'Weather' row
BrowserOnlyAfterScan ==
  BrowserStarts =>
    /\ page.parse_ok
    /\ ReachesElse(page.tables)
    /\ i = TablesScanned - 1

C12_OneEntryPerRace ==
  pc = "loop" =>
    /\ Len(info) = link
    /\ \A n \in 1..Len(info_src) : info_src[n] = n

\* C13: every browser session get_weather_info opens is quit before the
\* next race is processed, also when a stage-2 step after opening it
\* raises: between two races, and at the end of the batch, no opened
\* session is left unquit.
C13_SessionsQuit ==
  pc \in {"loop", "assign", "map", "returned", "ValueError", "AttributeError"} =>
    \A n \in 1..Len(driver) : driver[n].quit

====
